---- MODULE Spec2Model ----
(***************************************************************************)
(* A model of kmailight's classification core:                             *)
(*   - parser/line.rs : quoting_layer, Line::parse_lines (per-layer        *)
(*                      automaton) and its helpers,                        *)
(*   - line.rs        : Line::parse_lines, the classifier with one state   *)
(*                      for all quoting depths,                            *)
(*   - parser/span.rs : build_spans,                                       *)
(*   - chunk_collector.rs : ChunkCollector::collect and merge_adjacent,    *)
(*   - highlighter.rs : HighlighterEngine::highlight_quoting_marks,        *)
(*   - heuristics.rs  : Heuristics::filter_children and                    *)
(*                      filter_identifier_blocks.                          *)
(* Text is a sequence of one-character strings; every character of the     *)
(* model's alphabet is one byte (ASCII), so lengths are byte lengths.      *)
(***************************************************************************)
EXTENDS Integers, Sequences, FiniteSets, TLC

VARIABLES
    pc,        \* which part of the pipeline runs next
    source,    \* parse_lines: the input buffer
    rest,      \* parse_lines: what source.lines() has not yielded yet
    offset,    \* parse_lines: `offset`
    layers,    \* parse_lines: `layers`, a Vec<Option<LayerState>>
    lines,     \* parse_lines: `lines`, the records pushed so far
    spans,     \* build_spans: the returned Vec<Span>
    qline,     \* quoting_layer: its argument
    qdepth,    \* quoting_layer: its result (-1 before the call)
    chunks,    \* merge_adjacent: `spans`, the Vec<(usize, usize)> merged in place
    chunksIn,  \* merge_adjacent: the list first given
    chunksPrev,\* merge_adjacent: the list as it was before the last call
    merges,    \* merge_adjacent: how many calls were made
    tree,      \* filter_children: the syntax tree (nodes in document order)
    flat,      \* filter_children: the returned nodes
    text,      \* highlight_quoting_marks: its argument
    painted,   \* highlight_quoting_marks: the returned String
    linesSingle \* src/line.rs parse_lines: the returned records

vars == <<pc, source, rest, offset, layers, lines, spans, qline, qdepth,
          chunks, chunksIn, chunksPrev, merges, tree, flat, text, painted,
          linesSingle>>

parseVars == <<source, rest, offset, layers, lines, spans>>
qlVars    == <<qline, qdepth>>
mergeVars == <<chunks, chunksIn, chunksPrev, merges>>
treeVars  == <<tree, flat>>
paintVars == <<text, painted>>
singleVars == <<linesSingle>>

----------------------------------------------------------------------------
(* Bounds of the model.                                                    *)

MaxLines == 3      \* physical lines in an input of parse_lines, any line of the pool
MaxDeepLines == 4  \* physical lines in an input made of the core lines only
MaxQLen == 4       \* characters in an argument of quoting_layer
MaxPos == 4        \* the largest byte offset of a range given to merge_adjacent
MaxChunks == 3     \* ranges in a list given to merge_adjacent
MaxMerges == 2     \* calls of merge_adjacent in a row
MaxNodes == 4      \* nodes of a syntax tree
MaxTextLen == 4    \* characters in an argument of highlight_quoting_marks
MaxTailLines == 2  \* lines that follow the diff header in an input that starts with one

----------------------------------------------------------------------------
(* Text helpers (Rust's str methods, on sequences of characters).          *)

LF == "\n"
CR == "\r"

\* char::is_whitespace, restricted to the characters of the model
IsWhitespace(c) == c \in {" ", "\t", "\n", "\r"}

StartsWith(s, p) == Len(s) >= Len(p) /\ SubSeq(s, 1, Len(p)) = p

\* str::trim_start_matches('>')
RECURSIVE TrimStartMatchesGt(_)
TrimStartMatchesGt(s) ==
    IF s # <<>> /\ Head(s) = ">" THEN TrimStartMatchesGt(Tail(s)) ELSE s

\* str::trim_start
RECURSIVE TrimStart(_)
TrimStart(s) ==
    IF s # <<>> /\ IsWhitespace(Head(s)) THEN TrimStart(Tail(s)) ELSE s

\* the index of the first "\n" of s, 0 when there is none
RECURSIVE FindLF(_, _)
FindLF(s, i) ==
    IF i > Len(s) THEN 0
    ELSE IF s[i] = LF THEN i
    ELSE FindLF(s, i + 1)

\* str::lines(): the piece up to and including the first "\n" (or all the
\* rest), yielded without its "\n" or "\r\n"
LinesPiece(s) ==
    LET i == FindLF(s, 1) IN IF i = 0 THEN s ELSE SubSeq(s, 1, i)

LinesRest(s) ==
    LET i == FindLF(s, 1) IN IF i = 0 THEN <<>> ELSE SubSeq(s, i + 1, Len(s))

LinesNext(s) ==
    LET p == LinesPiece(s) IN
    IF p = <<>> \/ p[Len(p)] # LF THEN p
    ELSE LET q == SubSeq(p, 1, Len(p) - 1) IN
         IF q # <<>> /\ q[Len(q)] = CR THEN SubSeq(q, 1, Len(q) - 1) ELSE q

\* str::split_whitespace(), collected
RECURSIVE SplitWs(_, _, _)
SplitWs(s, cur, acc) ==
    IF s = <<>> THEN (IF cur = <<>> THEN acc ELSE Append(acc, cur))
    ELSE IF IsWhitespace(Head(s))
         THEN SplitWs(Tail(s), <<>>, IF cur = <<>> THEN acc ELSE Append(acc, cur))
         ELSE SplitWs(Tail(s), Append(cur, Head(s)), acc)

SplitWhitespace(s) == SplitWs(s, <<>>, <<>>)

\* str::trim_start_matches("a/")
RECURSIVE TrimStartMatchesA(_)
TrimStartMatchesA(s) ==
    IF StartsWith(s, <<"a", "/">>) THEN TrimStartMatchesA(SubSeq(s, 3, Len(s)))
    ELSE s

\* the index of the last "." of s, 0 when there is none
RECURSIVE FindLastDot(_, _)
FindLastDot(s, i) ==
    IF i = 0 THEN 0
    ELSE IF s[i] = "." THEN i
    ELSE FindLastDot(s, i - 1)

\* str::rsplit('.').next(): what follows the last ".", all of s without one
RsplitDotFirst(s) == SubSeq(s, FindLastDot(s, Len(s)) + 1, Len(s))

----------------------------------------------------------------------------
(* parser/line.rs                                                          *)

DiffMarker == <<"d", "i", "f", "f", " ", "-", "-", "g", "i", "t">>
HunkMarker == <<"@", "@">>
UnknownPath == <<"u", "n", "k", "n", "o", "w", "n">>

\* fn quoting_layer: the loop over line.chars(), with its two locals
RECURSIVE QuotingScan(_, _, _)
QuotingScan(s, count, seen_non_ws) ==
    IF s = <<>> THEN count
    ELSE IF Head(s) = ">"
         THEN (IF seen_non_ws THEN count
               ELSE QuotingScan(Tail(s), count + 1, TRUE))
    ELSE IF Head(s) \in {" ", "\t"}
         THEN QuotingScan(Tail(s), count, seen_non_ws)
    ELSE count

\* quoting_layer, were every '>' of the line counted
quoting_layer_every_marker(line) == Len(SelectSeq(line, LAMBDA c : c = ">"))

quoting_layer(line) == QuotingScan(line, 0, FALSE)

extract_file_path(diff_line) ==
    LET toks == SplitWhitespace(diff_line) IN
    TrimStartMatchesA(IF Len(toks) >= 3 THEN toks[3] ELSE UnknownPath)

detect_language(file_path) ==
    LET ext == RsplitDotFirst(file_path) IN
    IF ext = <<"c">> THEN "C"
    ELSE IF ext = <<"h">> THEN "C Header"
    ELSE IF ext = <<"r", "s">> THEN "Rust"
    ELSE IF ext = <<"p", "y">> THEN "Python"
    ELSE "Unknown"

\* the first character that is neither ' ' nor '\t', "" when there is none
RECURSIVE FirstNonBlank(_)
FirstNonBlank(s) ==
    IF s = <<>> THEN ""
    ELSE IF Head(s) \in {" ", "\t"} THEN FirstNonBlank(Tail(s))
    ELSE Head(s)

\* match_code_kind with the two signs taken for each other
match_code_kind_swapped(line) ==
    LET first == FirstNonBlank(line) IN
    IF first = "+" THEN "Remove"
    ELSE IF first = "-" THEN "Add"
    ELSE "Context"

match_code_kind(line) ==
    LET first == FirstNonBlank(line) IN
    IF first = "+" THEN "Add"
    ELSE IF first = "-" THEN "Remove"
    ELSE "Context"

\* match_code_kind returns an Option<CodeKind>: whether it is a Some, were
\* a line without a sign character answered with None
match_code_kind_none_when_blank(line) ==
    LET first == FirstNonBlank(line) IN
    IF first = "+" THEN TRUE
    ELSE IF first = "-" THEN TRUE
    ELSE IF first # "" THEN TRUE
    ELSE FALSE

\* whether the Option<CodeKind> returned by match_code_kind is a Some (the
\* value in it is match_code_kind above), arm by arm
match_code_kind_is_some(line) ==
    LET first == FirstNonBlank(line) IN
    IF first = "+" THEN TRUE
    ELSE IF first = "-" THEN TRUE
    ELSE IF first # "" THEN TRUE
    ELSE TRUE

\* Option<LayerState>
None == [some |-> FALSE]

\* the LayerState that get_or_insert_with builds
NewLayerState ==
    [some |-> TRUE, state |-> "Text", file_path |-> <<>>, language |-> "Unknown"]

\* layers.resize_with(ql + 1, || None), done when ql >= layers.len()
ResizeLayers(ls, ql) ==
    IF ql >= Len(ls) THEN ls \o [i \in 1..(ql + 1 - Len(ls)) |-> None] ELSE ls

\* layers[ql], as an index of a 1-based sequence
LayerIndexShared(ql) == 1

LayerIndex(ql) == ql + 1

\* layers[ql].get_or_insert_with(...)
GetOrInsert(ls, ql) ==
    IF ls[LayerIndex(ql)].some THEN ls
    ELSE [ls EXCEPT ![LayerIndex(ql)] = NewLayerState]

\* `let line = raw.trim_start_matches('>'); let trimmed = line.trim_start();`
Trimmed(raw) == TrimStart(TrimStartMatchesGt(raw))

\* the arm State::Text of `match entry.state`
TextArm(entry, raw, ql, off, trimmed) ==
    IF StartsWith(trimmed, DiffMarker)
    THEN LET fp == extract_file_path(trimmed) IN
         [entry |-> [entry EXCEPT !.state = "Diff", !.file_path = fp,
                                  !.language = detect_language(fp)],
          line |-> [variant |-> "DiffHeader", offset |-> off,
                    length |-> Len(raw) + 1, quoting_layer |-> ql,
                    file_path |-> fp, raw |-> raw]]
    ELSE [entry |-> entry,
          line |-> [variant |-> "Text", offset |-> off, length |-> Len(raw) + 1,
                    quoting_layer |-> ql, raw |-> raw]]

\* the HunkHeader record pushed by the arms Diff and Hunk | Code
HunkHeaderLine(entry, raw, ql, off) ==
    [variant |-> "HunkHeader", offset |-> off, length |-> Len(raw) + 1,
     quoting_layer |-> ql, file_path |-> entry.file_path,
     language |-> entry.language, raw |-> raw]

\* the arm State::Diff, were a line that is no hunk header to end the diff
DiffArmBackToText(entry, raw, ql, off, trimmed) ==
    IF StartsWith(trimmed, HunkMarker)
    THEN [entry |-> [entry EXCEPT !.state = "Hunk"],
          line |-> HunkHeaderLine(entry, raw, ql, off)]
    ELSE [entry |-> [entry EXCEPT !.state = "Text"],
          line |-> [variant |-> "Text", offset |-> off,
                    length |-> Len(raw) + 1, quoting_layer |-> ql, raw |-> raw]]

\* the arm State::Diff
DiffArm(entry, raw, ql, off, trimmed) ==
    IF StartsWith(trimmed, HunkMarker)
    THEN [entry |-> [entry EXCEPT !.state = "Hunk"],
          line |-> HunkHeaderLine(entry, raw, ql, off)]
    ELSE [entry |-> entry,
          line |-> [variant |-> "DiffMetadata", offset |-> off,
                    length |-> Len(raw) + 1, quoting_layer |-> ql, raw |-> raw]]

\* the arm State::Hunk | State::Code, were the hunk marker not looked for again
HunkCodeArmNoReentry(entry, raw, ql, off, trimmed) ==
    [entry |-> [entry EXCEPT !.state = "Code"],
     line |-> [variant |-> "Code", offset |-> off, length |-> Len(raw) + 1,
               quoting_layer |-> ql, kind |-> match_code_kind(trimmed),
               file_path |-> entry.file_path, language |-> entry.language,
               raw |-> raw]]

\* the arm State::Hunk | State::Code
HunkCodeArm(entry, raw, ql, off, trimmed) ==
    IF StartsWith(trimmed, HunkMarker)
    THEN [entry |-> [entry EXCEPT !.state = "Hunk"],
          line |-> HunkHeaderLine(entry, raw, ql, off)]
    ELSE [entry |-> [entry EXCEPT !.state = "Code"],
          line |-> [variant |-> "Code", offset |-> off, length |-> Len(raw) + 1,
                    quoting_layer |-> ql, kind |-> match_code_kind(trimmed),
                    file_path |-> entry.file_path, language |-> entry.language,
                    raw |-> raw]]

\* One iteration of `for raw in source.lines()`: its locals raw, ql, trimmed
\* and entry (the layers vector resized and the entry inserted on the way)
CurRaw == LinesNext(rest)
CurQl == quoting_layer(CurRaw)
CurTrimmed == Trimmed(CurRaw)
CurLayers == GetOrInsert(ResizeLayers(layers, CurQl), CurQl)
CurEntry == CurLayers[LayerIndex(CurQl)]

\* the end of the iteration, were `offset` advanced by raw.len() only
PushLineNoTerminator(r) ==
    /\ layers' = [CurLayers EXCEPT ![LayerIndex(CurQl)] = r.entry]
    /\ lines' = Append(lines, r.line)
    /\ offset' = offset + Len(CurRaw)
    /\ rest' = LinesRest(rest)
    /\ UNCHANGED <<pc, source, spans>>

\* the end of the iteration: the record is pushed, the entry is written
\* back through the &mut borrow, and `offset += len`
PushLine(r) ==
    /\ layers' = [CurLayers EXCEPT ![LayerIndex(CurQl)] = r.entry]
    /\ lines' = Append(lines, r.line)
    /\ offset' = offset + Len(CurRaw) + 1
    /\ rest' = LinesRest(rest)
    /\ UNCHANGED <<pc, source, spans>>

ParseLineText ==
    /\ pc = "parse" /\ rest # <<>>
    /\ CurEntry.state = "Text"
    /\ PushLine(TextArm(CurEntry, CurRaw, CurQl, offset, CurTrimmed))
    /\ UNCHANGED <<qlVars, mergeVars, treeVars, paintVars, singleVars>>

ParseLineDiff ==
    /\ pc = "parse" /\ rest # <<>>
    /\ CurEntry.state = "Diff"
    /\ PushLine(DiffArm(CurEntry, CurRaw, CurQl, offset, CurTrimmed))
    /\ UNCHANGED <<qlVars, mergeVars, treeVars, paintVars, singleVars>>

ParseLineHunkCode ==
    /\ pc = "parse" /\ rest # <<>>
    /\ CurEntry.state \in {"Hunk", "Code"}
    /\ PushLine(HunkCodeArm(CurEntry, CurRaw, CurQl, offset, CurTrimmed))
    /\ UNCHANGED <<qlVars, mergeVars, treeVars, paintVars, singleVars>>

\* source.lines() is exhausted: parse_lines returns `lines`
ParseReturn ==
    /\ pc = "parse" /\ rest = <<>>
    /\ pc' = "parsed"
    /\ UNCHANGED <<parseVars, qlVars, mergeVars, treeVars, paintVars, singleVars>>

----------------------------------------------------------------------------
(* parser/span.rs                                                          *)

same_quoting_layer(a, b) == a.quoting_layer = b.quoting_layer

\* same_variant, were the sign of two Code records compared as well
same_variant_and_kind(a, b) ==
    a.variant = b.variant /\ (a.variant = "Code" => a.kind = b.kind)

same_variant(a, b) == a.variant = b.variant

\* Line::get_end_offset is called by build_spans and defined nowhere in the
\* sources at hand; it is taken to be the record's offset + length
get_end_offset(l) == l.offset + l.length

\* the condition that closes the span started at start_idx before record i
\* (indices as in the code, from 0)
SpanBoundaryNoEnd(ls, start_idx, i) ==
    /\ i # Len(ls)
    /\ \/ ~same_quoting_layer(ls[start_idx + 1], ls[i + 1])
       \/ ~same_variant(ls[start_idx + 1], ls[i + 1])

\* the condition, were the quoting depth not compared
SpanBoundaryNoLayer(ls, start_idx, i) ==
    \/ i = Len(ls)
    \/ ~same_variant(ls[start_idx + 1], ls[i + 1])

SpanBoundary(ls, start_idx, i) ==
    \/ i = Len(ls)
    \/ ~same_quoting_layer(ls[start_idx + 1], ls[i + 1])
    \/ ~same_variant(ls[start_idx + 1], ls[i + 1])

\* the Span built from lines[start_idx]; its slice &lines[start_idx..i] is
\* kept as the index range lo..hi (hi excluded)
MakeSpan(ls, start_idx, i) ==
    LET first == ls[start_idx + 1]
        common == [variant |-> first.variant, start |-> first.offset,
                   end |-> get_end_offset(ls[i]),
                   quoting_layer |-> first.quoting_layer,
                   lo |-> start_idx, hi |-> i]
    IN IF first.variant = "Code"
       THEN [variant |-> "Code", start |-> common.start, end |-> common.end,
             quoting_layer |-> common.quoting_layer, kind |-> first.kind,
             lo |-> start_idx, hi |-> i]
       ELSE common

\* `for i in 1..=lines.len()`
RECURSIVE BuildSpansLoop(_, _, _, _)
BuildSpansLoop(ls, i, start_idx, acc) ==
    IF i > Len(ls) THEN acc
    ELSE IF SpanBoundary(ls, start_idx, i)
         THEN BuildSpansLoop(ls, i + 1, i, Append(acc, MakeSpan(ls, start_idx, i)))
         ELSE BuildSpansLoop(ls, i + 1, start_idx, acc)

build_spans(ls) == IF ls = <<>> THEN <<>> ELSE BuildSpansLoop(ls, 1, 0, <<>>)

\* the indices of `lines` (from 0) that the loop's condition reads at i: the
\* `i == lines.len() ||` keeps lines[i] from being read past the end
SpanBoundaryReads(ls, start_idx, i) ==
    IF i = Len(ls) THEN {} ELSE {start_idx, i}

\* those read when the span is built: lines[start_idx] and lines[i - 1]
MakeSpanReads(start_idx, i) == {start_idx, i - 1}

\* every index of `lines` read by build_spans
RECURSIVE BuildSpansReads(_, _, _)
BuildSpansReads(ls, i, start_idx) ==
    IF i > Len(ls) THEN {}
    ELSE SpanBoundaryReads(ls, start_idx, i)
         \cup (IF SpanBoundary(ls, start_idx, i)
               THEN MakeSpanReads(start_idx, i) \cup BuildSpansReads(ls, i + 1, i)
               ELSE BuildSpansReads(ls, i + 1, start_idx))

build_spans_reads(ls) == IF ls = <<>> THEN {} ELSE BuildSpansReads(ls, 1, 0)

BuildSpans ==
    /\ pc = "parsed"
    /\ spans' = build_spans(lines)
    /\ pc' = "spans"
    /\ UNCHANGED <<source, rest, offset, layers, lines, qlVars, mergeVars,
                   treeVars, paintVars, singleVars>>

----------------------------------------------------------------------------
(* The inputs of parse_lines: up to MaxLines physical lines drawn from a   *)
(* pool, each with its terminator; the last terminator may be missing.     *)

LineDiffC == [text |-> <<"d", "i", "f", "f", " ", "-", "-", "g", "i", "t", " ", "a", "/", "f", ".", "c", " ", "b", "/", "f", ".", "c">>, term |-> <<LF>>]
LineQuotedDiffRs == [text |-> <<">", " ", "d", "i", "f", "f", " ", "-", "-", "g", "i", "t", " ", "a", "/", "g", ".", "r", "s", " ", "b", "/", "g", ".", "r", "s">>, term |-> <<LF>>]
LineHunk == [text |-> <<"@", "@", " ", "-", "1", " ", "+", "1", " ", "@", "@">>, term |-> <<LF>>]
LineQuotedHunk == [text |-> <<">", "@", "@">>, term |-> <<CR, LF>>]
LineAdd == [text |-> <<"+", "a">>, term |-> <<LF>>]
LineQuotedRemove == [text |-> <<">", " ", "-", "b">>, term |-> <<LF>>]
LineEmpty == [text |-> <<>>, term |-> <<LF>>]
LineProse == [text |-> <<"x">>, term |-> <<CR, LF>>]
LineTwiceQuoted == [text |-> <<">", ">", " ", "y">>, term |-> <<LF>>]
LineDiffNoPath == [text |-> <<"d", "i", "f", "f", " ", "-", "-", "g", "i", "t">>, term |-> <<LF>>]

\* the lines of a diff at depths 0 and 1, used for the longer inputs
CorePool == <<LineDiffC, LineQuotedDiffRs, LineHunk, LineQuotedHunk, LineAdd>>

LinePool ==
    CorePool \o <<LineQuotedRemove, LineEmpty, LineProse, LineTwiceQuoted,
                  LineDiffNoPath>>

RECURSIVE JoinLines(_, _, _)
JoinLines(f, i, dropLast) ==
    IF i > Len(f) THEN <<>>
    ELSE LinePool[f[i]].text
         \o (IF i = Len(f) /\ dropLast THEN <<>> ELSE LinePool[f[i]].term)
         \o JoinLines(f, i + 1, dropLast)

\* the line numbers (in LinePool) of the inputs: up to `wide` lines of the
\* pool, or up to `deep` lines of the core
InputShapes(wide, deep) ==
    UNION {[1..n -> 1..Len(LinePool)] : n \in 0..wide}
    \cup UNION {[1..n -> 1..Len(CorePool)] : n \in 0..deep}

\* the input buffer made of the lines f, without the last terminator when
\* dropLast
Source(f, dropLast) == JoinLines(f, 1, dropLast)

IdleQl == qline = <<>> /\ qdepth = -1
IdleMerge == chunks = <<>> /\ chunksIn = <<>> /\ chunksPrev = <<>> /\ merges = 0
IdleTree == tree = <<>> /\ flat = <<>>
IdlePaint == text = <<>> /\ painted = <<>>
IdleSingle == linesSingle = <<>>
IdleParse ==
    /\ source = <<>> /\ rest = <<>> /\ offset = 0
    /\ layers = <<>> /\ lines = <<>> /\ spans = <<>>

Init ==
    /\ pc = "parse"
    /\ \E f \in InputShapes(MaxLines, MaxDeepLines), d \in BOOLEAN :
           source = Source(f, d)
    /\ rest = source
    /\ offset = 0
    /\ layers = <<>>
    /\ lines = <<>>
    /\ spans = <<>>
    /\ IdleQl /\ IdleMerge /\ IdleTree /\ IdlePaint /\ IdleSingle

Next ==
    \/ ParseLineText
    \/ ParseLineDiff
    \/ ParseLineHunkCode
    \/ ParseReturn
    \/ BuildSpans

Spec == Init /\ [][Next]_vars

----------------------------------------------------------------------------
(* line.rs: Line::parse_lines, the classifier that keeps one state, one    *)
(* current_file and one current_lang for the lines of every depth. Its     *)
(* helpers quoting_layer, extract_file_path, detect_language and           *)
(* match_code_kind are those of parser/line.rs, character for character.   *)

\* `state`, `current_file` and `current_lang` before the loop
SingleStateInit ==
    [state |-> "Text", current_file |-> <<>>, current_lang |-> "Unknown"]

\* one iteration of `for raw in source.lines()`: the locals after it and
\* the record pushed
SingleStateStep(st, raw, off) ==
    LET len == Len(raw) + 1
        ql == quoting_layer(raw)
        line == TrimStartMatchesGt(raw)
        trimmed == TrimStart(line)
        hunk_header == [variant |-> "HunkHeader", offset |-> off, length |-> len,
                        quoting_layer |-> ql, file_path |-> st.current_file,
                        language |-> st.current_lang, raw |-> raw]
    IN IF st.state = "Text"
       THEN IF StartsWith(trimmed, DiffMarker)
            THEN LET file == extract_file_path(trimmed) IN
                 [st |-> [state |-> "Diff", current_file |-> file,
                          current_lang |-> detect_language(file)],
                  line |-> [variant |-> "DiffHeader", offset |-> off,
                            length |-> len, quoting_layer |-> ql,
                            file_path |-> file, raw |-> raw]]
            ELSE [st |-> st,
                  line |-> [variant |-> "Text", offset |-> off, length |-> len,
                            quoting_layer |-> ql, raw |-> raw]]
       ELSE IF st.state = "Diff"
       THEN IF StartsWith(trimmed, HunkMarker)
            THEN [st |-> [st EXCEPT !.state = "Hunk"], line |-> hunk_header]
            ELSE [st |-> st,
                  line |-> [variant |-> "DiffMetadata", offset |-> off,
                            length |-> len, quoting_layer |-> ql, raw |-> raw]]
       ELSE IF StartsWith(trimmed, HunkMarker)
            THEN [st |-> [st EXCEPT !.state = "Hunk"], line |-> hunk_header]
            ELSE [st |-> [st EXCEPT !.state = "Code"],
                  line |-> [variant |-> "Code", offset |-> off, length |-> len,
                            quoting_layer |-> ql, kind |-> match_code_kind(trimmed),
                            file_path |-> st.current_file,
                            language |-> st.current_lang, raw |-> raw]]

RECURSIVE SingleStateLoop(_, _, _, _)
SingleStateLoop(s, off, st, acc) ==
    IF s = <<>> THEN acc
    ELSE LET raw == LinesNext(s)
             r == SingleStateStep(st, raw, off)
         IN SingleStateLoop(LinesRest(s), off + Len(raw) + 1, r.st,
                            Append(acc, r.line))

\* Line::parse_lines of line.rs
parse_lines(src) == SingleStateLoop(src, 0, SingleStateInit, <<>>)

\* both classifiers are given the same input: the one of parser/line.rs
\* runs line by line, then the one of line.rs is called
ParseLinesSingleState ==
    /\ pc = "parsed"
    /\ linesSingle' = parse_lines(source)
    /\ pc' = "both"
    /\ UNCHANGED <<parseVars, qlVars, mergeVars, treeVars, paintVars>>

NextBoth ==
    \/ ParseLineText
    \/ ParseLineDiff
    \/ ParseLineHunkCode
    \/ ParseReturn
    \/ ParseLinesSingleState

SpecBoth == Init /\ [][NextBoth]_vars

----------------------------------------------------------------------------
(* parse_lines on the inputs that start with a diff-header line: one line  *)
(* of the header pool, then up to MaxTailLines lines of the core.          *)

LineDiffDirA == [text |-> <<"d", "i", "f", "f", " ", "-", "-", "g", "i", "t", " ", "a", "/", "a", "/", "f", ".", "c", " ", "b", "/", "a", "/", "f", ".", "c">>, term |-> <<LF>>]
LineDiffBarePy == [text |-> <<"d", "i", "f", "f", " ", "-", "-", "g", "i", "t", " ", "x", ".", "p", "y", " ", "y", ".", "p", "y">>, term |-> <<LF>>]
LineSpacedQuotedDiff == [text |-> <<" ", ">", " ", "d", "i", "f", "f", " ", "-", "-", "g", "i", "t", " ", "a", "/", "f", ".", "c", " ", "b", "/", "f", ".", "c">>, term |-> <<LF>>]

LineDiffNoExt == [text |-> <<"d", "i", "f", "f", " ", "-", "-", "g", "i", "t", " ", "a", "/", "c", " ", "b", "/", "c">>, term |-> <<LF>>]
LineDiffMd == [text |-> <<"d", "i", "f", "f", " ", "-", "-", "g", "i", "t", " ", "a", "/", "r", ".", "m", "d", " ", "b", "/", "r", ".", "m", "d">>, term |-> <<LF>>]

HeaderPool ==
    <<LineDiffC, LineQuotedDiffRs, LineDiffNoPath, LineDiffDirA, LineDiffBarePy,
      LineSpacedQuotedDiff, LineDiffNoExt, LineDiffMd>>

\* the input buffer made of the header line h and the core lines f
HeaderSource(h, f) ==
    HeaderPool[h].text \o HeaderPool[h].term \o JoinLines(f, 1, FALSE)

InitHdr ==
    /\ pc = "parse"
    /\ \E h \in 1..Len(HeaderPool), n \in 0..MaxTailLines :
           \E f \in [1..n -> 1..Len(CorePool)] : source = HeaderSource(h, f)
    /\ rest = source
    /\ offset = 0
    /\ layers = <<>>
    /\ lines = <<>>
    /\ spans = <<>>
    /\ IdleQl /\ IdleMerge /\ IdleTree /\ IdlePaint /\ IdleSingle

SpecHdr == InitHdr /\ [][Next]_vars

----------------------------------------------------------------------------
(* quoting_layer alone, over every line of up to MaxQLen characters.       *)

QlAlphabet == {">", " ", "\t", "x", "-"}

QlLines(len) == UNION {[1..n -> QlAlphabet] : n \in 0..len}

InitQl ==
    /\ pc = "ql"
    /\ qline \in QlLines(MaxQLen)
    /\ qdepth = -1
    /\ IdleParse /\ IdleMerge /\ IdleTree /\ IdlePaint /\ IdleSingle

QuotingLayer ==
    /\ pc = "ql" /\ qdepth = -1
    /\ qdepth' = quoting_layer(qline)
    /\ UNCHANGED <<pc, qline, parseVars, mergeVars, treeVars, paintVars, singleVars>>

NextQl == QuotingLayer

SpecQl == InitQl /\ [][NextQl]_vars

----------------------------------------------------------------------------
(* chunk_collector.rs: merge_adjacent. A range is a pair <<start, end>>.   *)

\* spans.sort_by_key(|&(start, _)| start): a stable sort, modelled as an
\* insertion that puts x behind every range whose start is not larger
RECURSIVE InsertByStart(_, _)
InsertByStart(sorted, x) ==
    IF sorted = <<>> THEN <<x>>
    ELSE IF Head(sorted)[1] <= x[1]
         THEN <<Head(sorted)>> \o InsertByStart(Tail(sorted), x)
         ELSE <<x>> \o sorted

RECURSIVE SortByStart(_)
SortByStart(s) ==
    IF s = <<>> THEN <<>>
    ELSE InsertByStart(SortByStart(SubSeq(s, 1, Len(s) - 1)), s[Len(s)])

Max(a, b) == IF a >= b THEN a ELSE b

\* `if start <= current.1 + 1`
MergeableNoGap(current, start) == start <= current[2]

\* the condition, were a gap of two bytes closed as well
MergeableWideGap(current, start) == start <= current[2] + 2

Mergeable(current, start) == start <= current[2] + 1

\* the `merged.push(current)` that follows the loop
MergeFinishNoPush(merged, current) == merged

MergeFinish(merged, current) == Append(merged, current)

\* `for &(start, end) in &spans[1..]`
RECURSIVE MergeLoop(_, _, _, _)
MergeLoop(sorted, i, current, merged) ==
    IF i > Len(sorted) THEN MergeFinish(merged, current)
    ELSE IF Mergeable(current, sorted[i][1])
         THEN MergeLoop(sorted, i + 1,
                        <<current[1], Max(current[2], sorted[i][2])>>, merged)
         ELSE MergeLoop(sorted, i + 1, sorted[i], Append(merged, current))

merge_adjacent(sp) ==
    IF sp = <<>> THEN <<>>
    ELSE LET sorted == SortByStart(sp) IN MergeLoop(sorted, 2, sorted[1], <<>>)

Ranges(pos) == {r \in (0..pos) \X (0..pos) : r[1] <= r[2]}

\* the list of the specification's example
ExampleChunks == <<<<0, 3>>, <<4, 6>>, <<10, 12>>>>

ChunkLists(pos, len) ==
    UNION {[1..n -> Ranges(pos)] : n \in 0..len} \cup {ExampleChunks}

InitMerge ==
    /\ pc = "merge"
    /\ chunks \in ChunkLists(MaxPos, MaxChunks)
    /\ chunksIn = chunks
    /\ chunksPrev = chunks
    /\ merges = 0
    /\ IdleParse /\ IdleQl /\ IdleTree /\ IdlePaint /\ IdleSingle

MergeAdjacent ==
    /\ pc = "merge" /\ merges < MaxMerges
    /\ chunksPrev' = chunks
    /\ chunks' = merge_adjacent(chunks)
    /\ merges' = merges + 1
    /\ UNCHANGED <<pc, chunksIn, parseVars, qlVars, treeVars, paintVars, singleVars>>

NextMerge == MergeAdjacent

SpecMerge == InitMerge /\ [][NextMerge]_vars

----------------------------------------------------------------------------
(* heuristics.rs. A syntax tree is the sequence of its nodes in document   *)
(* order (a node before its children, the children in order); a node is    *)
(* [kind, parent, missing], the root having parent 0. A node is named by   *)
(* its index, and 0 stands for the None of an Option<Node>.                *)

PrimitiveKinds == {"identifier", "type_identifier", "number_literal", "ERROR"}

\* node.children(&mut cursor), collected
Children(t, n) ==
    LET S == {i \in 1..Len(t) : t[i].parent = n}
        f[k \in 0..Cardinality(S)] ==
            IF k = 0 THEN <<>>
            ELSE Append(f[k - 1],
                        CHOOSE i \in S :
                            Cardinality({j \in S : j < i}) = k - 1)
    IN f[Cardinality(S)]

child_count(t, n) == Cardinality({i \in 1..Len(t) : t[i].parent = n})

next_sibling(t, n) ==
    LET S == {i \in 1..Len(t) : i > n /\ t[i].parent = t[n].parent} IN
    IF t[n].parent = 0 \/ S = {} THEN 0 ELSE CHOOSE i \in S : \A j \in S : i <= j

\* current_node_valid, were a missing ";" taken for a terminator
current_node_valid_any_semicolon(t, n) ==
    \/ t[n].kind # "declaration"
    \/ \E c \in 1..Len(t) : t[c].parent = n /\ t[c].kind = ";"

current_node_valid(t, n) ==
    \/ t[n].kind # "declaration"
    \/ \E c \in 1..Len(t) : t[c].parent = n /\ t[c].kind = ";" /\ ~t[c].missing

\* the two places that flush the block, and the flush at the end: the
\* block's first node is pushed when the block holds one node
FlushBlockKeepFirst(filtered, block_start, block_len) ==
    IF block_start # 0 /\ block_len >= 1 THEN Append(filtered, block_start)
    ELSE filtered

\* the flush, were the block's node put in front of the list
FlushBlockInFront(filtered, block_start, block_len) ==
    IF block_start # 0 /\ block_len = 1 THEN <<block_start>> \o filtered
    ELSE filtered

FlushBlock(filtered, block_start, block_len) ==
    IF block_start # 0 /\ block_len = 1 THEN Append(filtered, block_start)
    ELSE filtered

RECURSIVE filter_children(_, _)
RECURSIVE IdentifierBlocksLoop(_, _, _, _, _)

\* `while let Some(node) = current` of filter_identifier_blocks
IdentifierBlocksLoop(t, current, block_start, block_len, filtered) ==
    IF current = 0 THEN FlushBlock(filtered, block_start, block_len)
    ELSE IF child_count(t, current) = 0
    THEN IF t[current].kind \in PrimitiveKinds
         THEN IdentifierBlocksLoop(t, next_sibling(t, current),
                  IF block_start = 0 THEN current ELSE block_start,
                  block_len + 1, filtered)
         ELSE IdentifierBlocksLoop(t, next_sibling(t, current), 0, 0,
                  Append(FlushBlock(filtered, block_start, block_len), current))
    ELSE IdentifierBlocksLoop(t, next_sibling(t, current), 0, 0,
             FlushBlock(filtered, block_start, block_len)
                 \o filter_children(t, current))

filter_identifier_blocks(t, start) == IdentifierBlocksLoop(t, start, 0, 0, <<>>)

filter_children(t, n) ==
    IF ~current_node_valid(t, n) THEN <<>>
    ELSE IF child_count(t, n) = 0 THEN <<n>>
    ELSE filter_identifier_blocks(t, Children(t, n)[1])

\* the kinds of the nodes of the trees modelled: a leaf is a token, a missing
\* ";" included; a node with children is a declaration, a block or an ERROR
LeafNodes ==
    {[kind |-> k, missing |-> FALSE] :
        k \in PrimitiveKinds \cup {"{", ";"}}
    \cup {[kind |-> ";", missing |-> TRUE]}

InnerNodes ==
    {[kind |-> k, missing |-> FALSE] :
        k \in {"declaration", "compound_statement", "ERROR"}}

\* the ancestors of node n, n included, given the parents of the nodes
RECURSIVE AncestorsOrSelf(_, _)
AncestorsOrSelf(par, n) ==
    IF n = 0 THEN {} ELSE {n} \cup AncestorsOrSelf(par, par[n])

\* the parent vectors of the trees of n nodes in document order
RECURSIVE Shapes(_)
Shapes(n) ==
    IF n = 1 THEN {<<0>>}
    ELSE UNION {{Append(par, a) : a \in AncestorsOrSelf(par, n - 1)} :
                   par \in Shapes(n - 1)}

HasChild(par, i) == \E j \in 1..Len(par) : par[j] = i

\* the tree of shape par whose nodes without children have the kinds ll and
\* whose nodes with children have the kinds il
MakeTree(par, ll, il) ==
    [i \in 1..Len(par) |->
        LET lab == IF HasChild(par, i) THEN il[i] ELSE ll[i] IN
        [kind |-> lab.kind, parent |-> par[i], missing |-> lab.missing]]

InitTree ==
    /\ pc = "tree"
    /\ \E n \in 1..MaxNodes : \E par \in Shapes(n) :
           LET inner == {i \in 1..n : HasChild(par, i)} IN
           \E ll \in [(1..n) \ inner -> LeafNodes], il \in [inner -> InnerNodes] :
               tree = MakeTree(par, ll, il)
    /\ flat = <<>>
    /\ IdleParse /\ IdleQl /\ IdleMerge /\ IdlePaint /\ IdleSingle

\* Heuristics::filter_children(root, source)
FilterChildren ==
    /\ pc = "tree"
    /\ flat' = filter_children(tree, 1)
    /\ pc' = "flat"
    /\ UNCHANGED <<tree, parseVars, qlVars, mergeVars, paintVars, singleVars>>

NextTree == FilterChildren

SpecTree == InitTree /\ [][NextTree]_vars

----------------------------------------------------------------------------
(* chunk_collector.rs: collect. The nodes of the tree also carry their     *)
(* byte range [start_byte, end_byte): a token is one byte wide, a missing  *)
(* token is empty, a node with children spans its children.                *)

\* the bytes between a token and the token before it
Gaps == {0, 1, 2}

TokenWidth(lab) == IF lab.missing THEN 0 ELSE 1

\* the kinds of the tokens and of the nodes with children of the trees given
\* to collect
ChunkLeafNodes ==
    {[kind |-> k, missing |-> FALSE] : k \in {"identifier", "{", ";"}}
    \cup {[kind |-> k, missing |-> TRUE] : k \in {"identifier", ";"}}

ChunkInnerNodes ==
    {[kind |-> k, missing |-> FALSE] : k \in {"declaration", "compound_statement"}}

\* the tree t with its byte ranges: gap[i] bytes lie before the token i
LayOut(t, gap) ==
    LET n == Len(t)
        isLeaf(i) == \A j \in 1..n : t[j].parent # i
        par == [i \in 1..n |-> t[i].parent]
        \* the end of the last token among the nodes 1..i
        tokEnd[i \in 0..n] ==
            IF i = 0 THEN 0
            ELSE IF isLeaf(i) THEN tokEnd[i - 1] + gap[i] + TokenWidth(t[i])
            ELSE tokEnd[i - 1]
        toks(i) == {j \in i..n : isLeaf(j) /\ i \in AncestorsOrSelf(par, j)}
        first(i) == CHOOSE j \in toks(i) : \A k \in toks(i) : j <= k
        last(i) == CHOOSE j \in toks(i) : \A k \in toks(i) : k <= j
    IN [i \in 1..n |->
           [kind |-> t[i].kind, parent |-> t[i].parent, missing |-> t[i].missing,
            start_byte |-> tokEnd[first(i)] - TokenWidth(t[first(i)]),
            end_byte |-> tokEnd[last(i)]]]

\* collect_valid_chunks, were an empty flattening result returned as it is
collect_valid_chunks_no_fallback(t, node) ==
    LET flat_nodes == filter_children(t, node) IN
    [k \in 1..Len(flat_nodes) |->
        <<t[flat_nodes[k]].start_byte, t[flat_nodes[k]].end_byte>>]

collect_valid_chunks(t, node) ==
    LET flat_nodes == filter_children(t, node) IN
    IF flat_nodes = <<>> THEN <<<<t[node].start_byte, t[node].end_byte>>>>
    ELSE [k \in 1..Len(flat_nodes) |->
             <<t[flat_nodes[k]].start_byte, t[flat_nodes[k]].end_byte>>]

collect(t, root) == merge_adjacent(collect_valid_chunks(t, root))

InitCollect ==
    /\ pc = "collect"
    /\ \E n \in 1..MaxNodes : \E par \in Shapes(n) :
           LET inner == {i \in 1..n : HasChild(par, i)}
               leaves == (1..n) \ inner
               firstTok == CHOOSE i \in leaves : \A j \in leaves : i <= j
           IN \E ll \in [leaves -> ChunkLeafNodes], il \in [inner -> ChunkInnerNodes],
                 gap \in [leaves -> Gaps] :
                  /\ gap[firstTok] = 0
                  /\ tree = LayOut(MakeTree(par, ll, il), gap)
    /\ flat = <<>>
    /\ chunks = <<>> /\ chunksIn = <<>> /\ chunksPrev = <<>> /\ merges = 0
    /\ IdleParse /\ IdleQl /\ IdlePaint /\ IdleSingle

\* ChunkCollector::collect(root, source): flat is the flat_nodes of
\* collect_valid_chunks, chunksIn its result, chunks the merged list returned
Collect ==
    /\ pc = "collect"
    /\ flat' = filter_children(tree, 1)
    /\ chunksIn' = collect_valid_chunks(tree, 1)
    /\ chunks' = collect(tree, 1)
    /\ pc' = "collected"
    /\ UNCHANGED <<tree, chunksPrev, merges, parseVars, qlVars, paintVars, singleVars>>

NextCollect == Collect

SpecCollect == InitCollect /\ [][NextCollect]_vars

----------------------------------------------------------------------------
(* highlighter.rs: highlight_quoting_marks, in the build without the       *)
(* feature "quote-paint-full". An escape sequence is the sequence of its   *)
(* bytes, "ESC" standing for the byte 0x1b.                                *)

BLUE == <<"ESC", "[", "3", "4", "m">>
RESET == <<"ESC", "[", "0", "m">>

\* `for (idx, ch) in line.char_indices()` of paint_line, with `started`
RECURSIVE PaintScan(_, _, _)
PaintScan(s, started, out) ==
    IF s = <<>> THEN out
    ELSE IF Head(s) \in {" ", "\t"} /\ ~started
         THEN PaintScan(Tail(s), started, Append(out, Head(s)))
    ELSE IF Head(s) = ">" /\ ~started
         THEN PaintScan(Tail(s), TRUE, out \o BLUE \o <<">">> \o RESET)
    ELSE out \o s

paint_line(line) == PaintScan(line, FALSE, <<>>)

\* text.lines().map(paint_line).collect::<Vec<_>>().join("\n")
RECURSIVE PaintLines(_, _)
PaintLines(s, first) ==
    IF s = <<>> THEN <<>>
    ELSE (IF first THEN <<>> ELSE <<LF>>)
         \o paint_line(LinesNext(s)) \o PaintLines(LinesRest(s), FALSE)

highlight_quoting_marks(t) ==
    LET ends_with_nl == t # <<>> /\ t[Len(t)] = LF
        result == PaintLines(t, TRUE)
    IN IF ends_with_nl THEN Append(result, LF) ELSE result

highlight_text(t) == highlight_quoting_marks(t)

highlight_diffh(diffh) == highlight_quoting_marks(diffh)

highlight_diffm(diffm) == highlight_quoting_marks(diffm)

PaintAlphabet == {">", " ", "\t", "x", LF, CR}

PaintTexts(len) == UNION {[1..n -> PaintAlphabet] : n \in 0..len}

InitPaint ==
    /\ pc = "paint"
    /\ text \in PaintTexts(MaxTextLen)
    /\ painted = <<>>
    /\ IdleParse /\ IdleQl /\ IdleMerge /\ IdleTree /\ IdleSingle

\* highlight_text, highlight_diffh or highlight_diffm is called with text
HighlightQuotingMarks ==
    /\ pc = "paint"
    /\ \E r \in {highlight_text(text), highlight_diffh(text), highlight_diffm(text)} :
           painted' = r
    /\ pc' = "painted"
    /\ UNCHANGED <<text, parseVars, qlVars, mergeVars, treeVars, singleVars>>

NextPaint == HighlightQuotingMarks

SpecPaint == InitPaint /\ [][NextPaint]_vars

----------------------------------------------------------------------------
(* Claims about parse_lines and build_spans, checked under Spec.           *)

\* the byte positions just after each line of s: after each "\n", and the
\* end of s when its last line has no terminator
RECURSIVE LineEnds(_, _)
LineEnds(s, from) ==
    IF from > Len(s) THEN <<>>
    ELSE LET i == FindLF(s, from) IN
         IF i = 0 THEN <<Len(s)>> ELSE <<i>> \o LineEnds(s, i + 1)

RECURSIVE SumLengths(_)
SumLengths(ls) == IF ls = <<>> THEN 0 ELSE Head(ls).length + SumLengths(Tail(ls))

\* the last record of ls at quoting depth d (0 when there is none)
LastAtLayer(ls, d) ==
    LET S == {i \in 1..Len(ls) : ls[i].quoting_layer = d} IN
    IF S = {} THEN 0 ELSE CHOOSE i \in S : \A j \in S : j <= i

\* a step of the loop of parse_lines is about to be taken
AtLine == pc = "parse" /\ rest # <<>>

\* C1: the records returned by parse_lines cover the input exactly: the
\* first offset is 0, each record ends just after its line's terminator,
\* and the lengths sum to the input's byte length (also without a final
\* terminator, and with CR LF).
C1_RecordsCoverInput ==
    pc = "parsed" =>
        /\ Len(lines) = Len(LineEnds(source, 1))
        /\ lines # <<>> => lines[1].offset = 0
        /\ \A i \in 1..Len(lines) :
               lines[i].offset + lines[i].length = LineEnds(source, 1)[i]
        /\ SumLengths(lines) = Len(source)

\* C2: build_spans returns non-empty slices that follow one another in
\* input order without gap or overlap, from the first record to the last;
\* an empty record sequence yields no spans.
C2_SpansPartition ==
    pc = "spans" =>
        /\ (lines = <<>>) <=> (spans = <<>>)
        /\ \A k \in 1..Len(spans) : spans[k].lo < spans[k].hi
        /\ spans # <<>> => spans[1].lo = 0 /\ spans[Len(spans)].hi = Len(lines)
        /\ \A k \in 1..(Len(spans) - 1) : spans[k + 1].lo = spans[k].hi
        /\ \A i \in 1..Len(lines) :
               Cardinality({k \in 1..Len(spans) :
                               spans[k].lo < i /\ i <= spans[k].hi}) = 1

C2_Witness ==
    /\ pc = "spans" /\ Len(spans) >= 2
    /\ \E k \in 1..Len(spans) : spans[k].hi - spans[k].lo >= 2

\* C3: a line of quoting depth d changes the LayerState of depth d only;
\* every other entry of `layers` is as it was (an entry the resize adds
\* is None).
C3_LayerFrame ==
    [][AtLine =>
          \A d \in 1..Len(layers') :
              d # CurQl + 1 =>
                  layers'[d] = (IF d <= Len(layers) THEN layers[d] ELSE None)]_vars

C3_Witness ==
    /\ Len(layers) = 2 /\ layers[1].some /\ layers[2].some
    /\ layers[1].state = "Hunk" /\ layers[2].state = "Diff"
    /\ layers[1].file_path # layers[2].file_path
    /\ lines[Len(lines)].quoting_layer = 0
    /\ \E i \in 1..Len(lines) : lines[i].quoting_layer = 1

\* C5: the record kind and the layer's next state follow from the layer's
\* state and the stripped line as the transition table says, one record per
\* line; a '@@' line that follows a diff header at its layer yields a
\* HunkHeader.
C5_Table(st, t) ==
    IF st = "Text"
    THEN (IF StartsWith(t, DiffMarker) THEN <<"DiffHeader", "Diff">>
          ELSE <<"Text", "Text">>)
    ELSE IF st = "Diff"
    THEN (IF StartsWith(t, HunkMarker) THEN <<"HunkHeader", "Hunk">>
          ELSE <<"DiffMetadata", "Diff">>)
    ELSE (IF StartsWith(t, HunkMarker) THEN <<"HunkHeader", "Hunk">>
          ELSE <<"Code", "Code">>)

C5_Transitions ==
    [][AtLine =>
          /\ Len(lines') = Len(lines) + 1
          /\ <<lines'[Len(lines')].variant, layers'[CurQl + 1].state>>
                 = C5_Table(CurEntry.state, CurTrimmed)
          /\ LET i == LastAtLayer(lines, CurQl) IN
             (i > 0 /\ lines[i].variant = "DiffHeader"
                    /\ StartsWith(CurTrimmed, HunkMarker))
                 => lines'[Len(lines')].variant = "HunkHeader"]_vars

C5_Witness ==
    /\ \E i \in 1..(Len(lines) - 1) :
           /\ lines[i].variant = "DiffHeader" /\ lines[i + 1].variant = "HunkHeader"
           /\ lines[i].quoting_layer = lines[i + 1].quoting_layer
    /\ \E i \in 1..(Len(lines) - 1) :
           /\ lines[i].variant = "Code" /\ lines[i + 1].variant = "HunkHeader"
           /\ lines[i].quoting_layer = lines[i + 1].quoting_layer

\* C6: after a DiffHeader record at some depth, no later record of that
\* depth is Text, and the layer's state is not Text.
C6_NoReturnToText ==
    \A i \in 1..Len(lines) :
        lines[i].variant = "DiffHeader" =>
            /\ layers[lines[i].quoting_layer + 1].some
            /\ layers[lines[i].quoting_layer + 1].state # "Text"
            /\ \A j \in (i + 1)..Len(lines) :
                   lines[j].quoting_layer = lines[i].quoting_layer
                       => lines[j].variant # "Text"

C6_Witness ==
    \E i, j \in 1..Len(lines) :
        /\ i < j /\ lines[i].variant = "DiffHeader"
        /\ lines[j].quoting_layer = lines[i].quoting_layer
        /\ lines[j].raw \in {LineEmpty.text, LineProse.text}

\* the sign the first non-whitespace character of a stripped line stands for
C7_Sign(t) ==
    LET nb == SelectSeq(t, LAMBDA c : ~IsWhitespace(c)) IN
    IF nb = <<>> THEN "Context"
    ELSE IF nb[1] = "+" THEN "Add"
    ELSE IF nb[1] = "-" THEN "Remove"
    ELSE "Context"

\* C7: a line met in state Hunk or Code that does not start with '@@'
\* yields a Code record, with sign Add for '+', Remove for '-', Context for
\* any other first character or none.
C7_CodeSign ==
    [][(AtLine /\ CurEntry.state \in {"Hunk", "Code"}
               /\ ~StartsWith(CurTrimmed, HunkMarker)) =>
          /\ lines'[Len(lines')].variant = "Code"
          /\ lines'[Len(lines')].kind = C7_Sign(CurTrimmed)]_vars

C7_Witness ==
    \E i \in 1..Len(lines) : lines[i].variant = "Code" /\ lines[i].kind = "Remove"

----------------------------------------------------------------------------
(* Claims about quoting_layer, checked under SpecQl.                       *)

\* the leading part of a line: its longest prefix of '>', ' ' and '\t'
RECURSIVE LeadingPart(_)
LeadingPart(s) ==
    IF s # <<>> /\ Head(s) \in {">", " ", "\t"}
    THEN <<Head(s)>> \o LeadingPart(Tail(s))
    ELSE <<>>

CountGt(s) == Len(SelectSeq(s, LAMBDA c : c = ">"))

\* C4: a line whose leading part is k '>' characters, with blanks before or
\* between them only, and then ends or goes on with another character,
\* has depth k.
C4_CountsEveryMarker ==
    (qdepth # -1 /\ (LeadingPart(qline) = <<>>
                        \/ LeadingPart(qline)[Len(LeadingPart(qline))] = ">"))
        => qdepth = CountGt(LeadingPart(qline))

----------------------------------------------------------------------------
(* Claims about merge_adjacent, checked under SpecMerge.                   *)

RangeSet(sp) == {sp[i] : i \in 1..Len(sp)}

\* the start of r opens a chunk: every range that starts before r ends
\* more than one byte before r starts
OpensChunk(R, r) == \A q \in R : q[1] < r[1] => q[2] + 1 < r[1]

\* the ranges gathered into the chunk that starts at a: those that start at
\* a or later, and before the next start that opens a chunk
ChunkMembers(R, a) ==
    {r \in R : a <= r[1]
                /\ \A q \in R : (a < q[1] /\ OpensChunk(R, q)) => r[1] < q[1]}

MaxEnd(S) == CHOOSE e \in {r[2] : r \in S} : \A r \in S : r[2] <= e

\* the chunks a list of ranges merges to, whatever its order
MergedChunks(R) ==
    {<<r[1], MaxEnd(ChunkMembers(R, r[1]))>> : r \in {q \in R : OpensChunk(R, q)}}

\* C8: merge_adjacent leaves a list sorted by start whose consecutive chunks
\* do not overlap and lie more than one byte apart; a range joins the
\* running chunk exactly when its start <= the running end + 1, the end
\* becoming the larger of the two; the empty list stays empty and
\* [(0,3),(4,6),(10,12)] becomes [(0,6),(10,12)].
C8_MergeAdjacent ==
    merges = 1 =>
        /\ \A k \in 1..(Len(chunks) - 1) :
               /\ chunks[k][1] < chunks[k + 1][1]
               /\ chunks[k][2] < chunks[k + 1][1]
               /\ chunks[k + 1][1] > chunks[k][2] + 1
        /\ RangeSet(chunks) = MergedChunks(RangeSet(chunksIn))
        /\ chunksIn = <<>> => chunks = <<>>
        /\ chunksIn = ExampleChunks => chunks = <<<<0, 6>>, <<10, 12>>>>

C8_Witness ==
    /\ merges = 1 /\ Len(chunksIn) = 3 /\ Len(chunks) = 2
    /\ chunksIn[1][1] > chunksIn[2][1]
    /\ \E i \in 1..3 : chunksIn[i][1] = chunks[1][2] + 2

\* C9: merging a merged list again returns it unchanged.
C9_Idempotent == merges >= 2 => chunks = chunksPrev

C9_Witness ==
    /\ merges = 2 /\ Len(chunks) >= 2
    /\ Len(chunksIn) > Len(chunks) /\ chunksIn # SortByStart(chunksIn)

----------------------------------------------------------------------------
(* Claims about filter_identifier_blocks, checked under SpecTree.          *)

IsLeaf(t, n) == \A i \in 1..Len(t) : t[i].parent # n

IsPrimitiveLeaf(t, n) == IsLeaf(t, n) /\ t[n].kind \in PrimitiveKinds

\* the sibling just before n (0 when n is a first child)
PrevSibling(t, n) ==
    LET S == {i \in 1..Len(t) : i < n /\ t[i].parent = t[n].parent} IN
    IF S = {} THEN 0 ELSE CHOOSE i \in S : \A j \in S : j <= i

NextSibling(t, n) ==
    LET S == {i \in 1..Len(t) : i > n /\ t[i].parent = t[n].parent} IN
    IF S = {} THEN 0 ELSE CHOOSE i \in S : \A j \in S : i <= j

\* n is a run of its own: no primitive leaf stands next to it
RunOfOne(t, n) ==
    /\ PrevSibling(t, n) = 0 \/ ~IsPrimitiveLeaf(t, PrevSibling(t, n))
    /\ NextSibling(t, n) = 0 \/ ~IsPrimitiveLeaf(t, NextSibling(t, n))

\* the children of p are walked: p and its ancestors are valid
RECURSIVE SiblingsWalked(_, _)
SiblingsWalked(t, p) ==
    /\ current_node_valid(t, p)
    /\ t[p].parent = 0 \/ SiblingsWalked(t, t[p].parent)

Occurrences(f, n) == Cardinality({k \in 1..Len(f) : f[k] = n})

\* C10: of the primitive leaves among walked siblings, exactly those that
\* form a run of length 1 are returned (once); the leaves of a run of two
\* or more are not, whether the run is ended by another leaf, by a node
\* with children or by the end of the sibling list.
C10_PrimitiveRuns ==
    pc = "flat" =>
        \A n \in 2..Len(tree) :
            (IsPrimitiveLeaf(tree, n) /\ SiblingsWalked(tree, tree[n].parent)) =>
                Occurrences(flat, n) = (IF RunOfOne(tree, n) THEN 1 ELSE 0)

\* children [identifier, identifier, "{"]: both identifiers are dropped
C10_Witness ==
    /\ pc = "flat" /\ Len(tree) = 4
    /\ \A n \in 2..4 : tree[n].parent = 1
    /\ tree[1].kind = "compound_statement"
    /\ tree[2].kind = "identifier" /\ tree[3].kind = "identifier"
    /\ tree[4].kind = "{"
    /\ flat = <<4>>

----------------------------------------------------------------------------
(* Claims about ChunkCollector::collect, checked under SpecCollect.        *)

\* the chunk c holds a byte of the node nd
HoldsByteOf(c, nd) ==
    \E b \in nd.start_byte..(nd.end_byte - 1) : c[1] <= b /\ b < c[2]

\* n is a leaf of a run of two or more primitive leaves among walked siblings
InDiscardedRun(t, n) ==
    /\ IsPrimitiveLeaf(t, n)
    /\ SiblingsWalked(t, t[n].parent)
    /\ ~RunOfOne(t, n)

\* C11: no chunk returned by collect holds a byte of a leaf of a discarded
\* primitive run (two or more consecutive primitive leaf siblings).
C11_RunsExcluded ==
    pc = "collected" =>
        \A n \in 2..Len(tree) :
            InDiscardedRun(tree, n) =>
                \A k \in 1..Len(chunks) : ~HoldsByteOf(chunks[k], tree[n])

\* C12: collect returns a list that is not empty, sorted by start, without
\* two chunks that overlap or lie within one byte of each other, and every
\* chunk lies inside the root's byte range.
C12_ChunksWellFormed ==
    pc = "collected" =>
        /\ chunks # <<>>
        /\ \A j, k \in 1..Len(chunks) :
               j < k => /\ chunks[j][1] <= chunks[k][1]
                        /\ chunks[j][2] <= chunks[k][1]
                        /\ chunks[j][2] + 1 < chunks[k][1]
        /\ \A k \in 1..Len(chunks) :
               /\ tree[1].start_byte <= chunks[k][1]
               /\ chunks[k][1] <= chunks[k][2]
               /\ chunks[k][2] <= tree[1].end_byte

\* three tokens, the first two one byte apart and the third further away:
\* three chunks before the merge, two after it
C12_Witness ==
    /\ pc = "collected"
    /\ Len(chunksIn) = 3 /\ Len(chunks) = 2
    /\ chunks[1][2] - chunks[1][1] = 3

\* the byte ranges of the nodes f of the tree t
NodeRanges(t, f) == [k \in 1..Len(f) |-> <<t[f[k]].start_byte, t[f[k]].end_byte>>]

\* C18: for a root that is a leaf or an invalid declaration collect returns
\* the root's byte range as its one chunk; for any other root the list
\* before the merge holds one chunk per node of the flattening walk, that
\* node's byte range.
C18_OneChunkPerNode ==
    pc = "collected" =>
        IF IsLeaf(tree, 1) \/ ~current_node_valid(tree, 1)
        THEN chunks = <<<<tree[1].start_byte, tree[1].end_byte>>>>
        ELSE chunksIn = NodeRanges(tree, flat)

----------------------------------------------------------------------------
(* Further claims about parse_lines and build_spans, checked under Spec.   *)

\* C13: parse_lines and build_spans have no failing path: `layers[ql]` is
\* in range after the resize, the unwrap of match_code_kind's result never
\* meets a None, and build_spans reads `lines` and takes its slices within
\* bounds.
C13_NoPanic ==
    /\ AtLine =>
           /\ LayerIndex(CurQl) \in 1..Len(ResizeLayers(layers, CurQl))
           /\ (CurEntry.state \in {"Hunk", "Code"}
                   /\ ~StartsWith(CurTrimmed, HunkMarker)) =>
                  match_code_kind_is_some(CurTrimmed)
    /\ pc = "parsed" => build_spans_reads(lines) \subseteq 0..(Len(lines) - 1)
    /\ pc = "spans" =>
           \A k \in 1..Len(spans) :
               0 <= spans[k].lo /\ spans[k].lo <= spans[k].hi
                   /\ spans[k].hi <= Len(lines)

\* a blank line inside a hunk went through the unwrap, a quoted line through
\* the resize, and build_spans closed more than one span
C13_Witness ==
    /\ pc = "spans" /\ Len(spans) >= 2
    /\ \E i \in 1..Len(lines) :
           lines[i].variant = "Code" /\ FirstNonBlank(Trimmed(lines[i].raw)) = ""

----------------------------------------------------------------------------
(* Further claims about quoting_layer, checked under SpecQl.               *)

\* the line s with the character c put in at position p
InsertAt(s, p, c) == SubSeq(s, 1, p - 1) \o <<c>> \o SubSeq(s, p, Len(s))

\* C14: quoting_layer returns 0 for a line whose first character other than
\* a blank is not '>' (the empty line and a line with a later '>' included),
\* and it is monotonic: one more '>' anywhere in the leading part of a line
\* never makes the depth smaller.
C14_ZeroAndMonotonic ==
    qdepth # -1 =>
        /\ FirstNonBlank(qline) # ">" => qdepth = 0
        /\ \A p \in 1..(Len(LeadingPart(qline)) + 1) :
               quoting_layer(InsertAt(qline, p, ">")) >= qdepth

\* a line such as "->": a '>' that follows another character is not counted
C14_Witness ==
    /\ qdepth = 0 /\ qline # <<>>
    /\ qline[1] = "-"
    /\ \E i \in 2..Len(qline) : qline[i] = ">"

----------------------------------------------------------------------------
(* Claims about highlight_quoting_marks, checked under SpecPaint.          *)

\* a line with every '>' of its leading part wrapped in the quote style
RECURSIVE EveryMarkerPainted(_)
EveryMarkerPainted(s) ==
    IF s = <<>> THEN <<>>
    ELSE IF Head(s) \in {" ", "\t"} THEN <<Head(s)>> \o EveryMarkerPainted(Tail(s))
    ELSE IF Head(s) = ">" THEN BLUE \o <<">">> \o RESET \o EveryMarkerPainted(Tail(s))
    ELSE s

\* the text s, each line painted so and kept with its own terminator
RECURSIVE EveryLinePainted(_)
EveryLinePainted(s) ==
    IF s = <<>> THEN <<>>
    ELSE LET piece == LinesPiece(s)
             body == LinesNext(s)
         IN EveryMarkerPainted(body)
            \o SubSeq(piece, Len(body) + 1, Len(piece))
            \o EveryLinePainted(LinesRest(s))

\* C15: in the text returned, every '>' of a line's leading run of quote
\* markers (with blanks between them) is wrapped in the quote style, and
\* the rest of the line is as it was.
C15_EveryMarkerPainted ==
    pc = "painted" => painted = EveryLinePainted(text)

----------------------------------------------------------------------------
(* Claims about the diff-header line, checked under SpecHdr.               *)

\* the line raw without its first d quote markers, the whitespace before
\* each of them and the whitespace after the last
RECURSIVE StripDepth(_, _)
StripDepth(raw, d) ==
    LET t == TrimStart(raw) IN
    IF d = 0 \/ t = <<>> \/ Head(t) # ">" THEN t
    ELSE StripDepth(Tail(t), d - 1)

\* C16: the text tested against the markers is the raw line without exactly
\* quoting_layer(line) leading quote markers and the whitespace around
\* them; so a diff header or a hunk marker quoted at depth d, with or
\* without whitespace before or between the markers, yields a DiffHeader or
\* a HunkHeader at layer d.
C16_StripsDepthMarkers ==
    [][AtLine =>
          LET stripped == StripDepth(CurRaw, CurQl)
              new == lines'[Len(lines')]
          IN /\ CurTrimmed = stripped
             /\ (CurEntry.state = "Text" /\ StartsWith(stripped, DiffMarker)) =>
                    new.variant = "DiffHeader" /\ new.quoting_layer = CurQl
             /\ (CurEntry.state # "Text" /\ StartsWith(stripped, HunkMarker)) =>
                    new.variant = "HunkHeader" /\ new.quoting_layer = CurQl]_vars

\* the third token of the stripped line without one leading "a/", or
\* "unknown" when there are fewer than three tokens
ThirdTokenPath(stripped) ==
    LET toks == SplitWhitespace(stripped) IN
    IF Len(toks) < 3 THEN UnknownPath
    ELSE IF StartsWith(toks[3], <<"a", "/">>) THEN SubSeq(toks[3], 3, Len(toks[3]))
    ELSE toks[3]

\* C20: a diff-header line stores the third whitespace-separated token of
\* the stripped line, an "a/" prefix removed, as the file path, "unknown"
\* when the line has fewer than three tokens; in both cases a DiffHeader
\* record is pushed and the layer moves to Diff.
C20_StoredPath ==
    [][(AtLine /\ CurEntry.state = "Text" /\ StartsWith(CurTrimmed, DiffMarker)) =>
          LET new == lines'[Len(lines')]
              entry == layers'[LayerIndex(CurQl)]
          IN /\ new.variant = "DiffHeader"
             /\ new.file_path = ThirdTokenPath(CurTrimmed)
             /\ entry.state = "Diff"
             /\ entry.file_path = ThirdTokenPath(CurTrimmed)]_vars

----------------------------------------------------------------------------
(* Further claims about filter_children, checked under SpecTree.           *)

\* a declaration none of whose children is a ";" really present
DanglingDeclaration(t, n) ==
    /\ t[n].kind = "declaration"
    /\ \A c \in 1..Len(t) : t[c].parent = n => (t[c].kind # ";" \/ t[c].missing)

\* n or one of its ancestors is a
InSubtree(t, a, n) == a \in AncestorsOrSelf([i \in 1..Len(t) |-> t[i].parent], n)

\* C17: current_node_valid is false exactly for the declarations without a
\* ";" child that is not missing; a sibling with children that is invalid
\* so gives no node to the flattening result, nor does any node below it.
C17_InvalidDeclarations ==
    pc = "flat" =>
        /\ \A n \in 1..Len(tree) :
               current_node_valid(tree, n) <=> ~DanglingDeclaration(tree, n)
        /\ \A n \in 2..Len(tree) :
               (~IsLeaf(tree, n) /\ DanglingDeclaration(tree, n)) =>
                   \A k \in 1..Len(flat) : ~InSubtree(tree, n, flat[k])

\* a declaration whose only ";" is missing stands beside a "{": the walk
\* returns the "{" beside it and nothing from below the declaration
C17_Witness ==
    /\ pc = "flat" /\ flat # <<>>
    /\ \E n \in 2..Len(tree) :
           /\ DanglingDeclaration(tree, n)
           /\ \E c \in 1..Len(tree) :
                  tree[c].parent = n /\ tree[c].kind = ";" /\ tree[c].missing

----------------------------------------------------------------------------
(* Further claims about parse_lines, checked under Spec.                   *)

\* the last DiffHeader record of depth d before record j (0 without one)
HeaderBefore(ls, j, d) ==
    LET S == {i \in 1..(j - 1) :
                 ls[i].variant = "DiffHeader" /\ ls[i].quoting_layer = d}
    IN IF S = {} THEN 0 ELSE CHOOSE i \in S : \A k \in S : k <= i

\* C19: a HunkHeader or Code record of depth d carries the file path of the
\* DiffHeader record of depth d before it and the language of that path,
\* whatever records of other depths lie between them.
C19_PathOfOwnLayer ==
    \A j \in 1..Len(lines) :
        lines[j].variant \in {"HunkHeader", "Code"} =>
            LET i == HeaderBefore(lines, j, lines[j].quoting_layer) IN
            /\ i # 0
            /\ lines[j].file_path = lines[i].file_path
            /\ lines[j].language = detect_language(lines[i].file_path)

\* two diffs interleaved at depths 0 and 1, each with its own path, language
\* and hunk
C19_Witness ==
    \E j, k \in 1..Len(lines) :
        LET hj == HeaderBefore(lines, j, lines[j].quoting_layer)
            hk == HeaderBefore(lines, k, lines[k].quoting_layer)
        IN /\ j < k
           /\ lines[j].variant \in {"HunkHeader", "Code"}
           /\ lines[k].variant \in {"HunkHeader", "Code"}
           /\ lines[j].quoting_layer # lines[k].quoting_layer
           /\ lines[j].file_path # lines[k].file_path
           /\ lines[j].language # lines[k].language
           /\ hj < hk /\ hk < j

----------------------------------------------------------------------------
(* Further claims about the diff-header line, checked under SpecHdr.       *)

\* the language of the table for the extension of path p, "Unknown" for a
\* path without "." and for an extension that is not in the table
LanguageByExtension(p) ==
    LET dot == FindLastDot(p, Len(p))
        ext == SubSeq(p, dot + 1, Len(p))
    IN IF dot = 0 THEN "Unknown"
       ELSE IF ext = <<"c">> THEN "C"
       ELSE IF ext = <<"h">> THEN "C Header"
       ELSE IF ext = <<"r", "s">> THEN "Rust"
       ELSE IF ext = <<"p", "y">> THEN "Python"
       ELSE "Unknown"

\* C21: the language stored with a path is 'C', 'C Header', 'Rust' or
\* 'Python' only when the path has the extension c, h, rs or py, and
\* 'Unknown' for a path with another extension or without any "." .
C21_LanguageByExtension ==
    \A d \in 1..Len(layers) :
        (layers[d].some /\ layers[d].state # "Text") =>
            layers[d].language = LanguageByExtension(layers[d].file_path)

----------------------------------------------------------------------------
(* Further claims about build_spans, checked under Spec.                   *)

\* C22: the records of a span all have the quoting depth and the variant of
\* its first record, whose offset, depth and variant are the span's start,
\* quoting_layer and variant; and the last record of a span differs from
\* the first record of the next span in depth or in variant.
C22_HomogeneousMaximal ==
    pc = "spans" =>
        /\ \A k \in 1..Len(spans) :
               LET first == lines[spans[k].lo + 1] IN
               /\ spans[k].start = first.offset
               /\ spans[k].quoting_layer = first.quoting_layer
               /\ spans[k].variant = first.variant
               /\ \A i \in (spans[k].lo + 1)..spans[k].hi :
                      /\ lines[i].quoting_layer = first.quoting_layer
                      /\ lines[i].variant = first.variant
        /\ \A k \in 1..(Len(spans) - 1) :
               LET last == lines[spans[k].hi]
                   next == lines[spans[k + 1].lo + 1]
               IN last.quoting_layer # next.quoting_layer
                      \/ last.variant # next.variant

\* a span of two records is followed by a span of the same variant at
\* another depth
C22_Witness ==
    /\ pc = "spans"
    /\ \E k \in 1..(Len(spans) - 1) :
           /\ spans[k].hi - spans[k].lo >= 2
           /\ spans[k].variant = spans[k + 1].variant
           /\ spans[k].quoting_layer # spans[k + 1].quoting_layer

----------------------------------------------------------------------------
(* Further claims about quoting_layer, checked under SpecQl.               *)

\* the position of the first character of s that is no blank (0 without one)
FirstNonBlankAt(s) ==
    LET S == {i \in 1..Len(s) : s[i] \notin {" ", "\t"}} IN
    IF S = {} THEN 0 ELSE CHOOSE i \in S : \A j \in S : i <= j

\* C23: a '>' counts as a quoting layer only when whitespace or another '>'
\* follows it: a line whose first '>' is directly followed by another
\* character, such as ">x", has depth 0.
C23_MarkerNeedsBlank ==
    qdepth # -1 =>
        LET i == FirstNonBlankAt(qline) IN
        (i # 0 /\ i < Len(qline) /\ qline[i] = ">"
             /\ qline[i + 1] \notin {" ", "\t", ">"}) => qdepth = 0

----------------------------------------------------------------------------
(* Further claims about parse_lines, checked under Spec.                   *)

HeadersAt(ls, d) ==
    {i \in 1..Len(ls) : ls[i].variant = "DiffHeader" /\ ls[i].quoting_layer = d}

\* C25: a layer pushes at most one DiffHeader record and its stored path and
\* language are assigned at most once: a 'diff --git' line that meets the
\* layer in Diff, Hunk or Code becomes a DiffMetadata or Code record and
\* leaves the stored path and language as they were.
C25_OneHeaderPerLayer ==
    [][AtLine =>
          LET new == lines'[Len(lines')]
              entry == layers'[LayerIndex(CurQl)]
          IN /\ \A d \in 0..(Len(layers') - 1) : Cardinality(HeadersAt(lines', d)) <= 1
             /\ CurEntry.state # "Text" =>
                    /\ entry.file_path = CurEntry.file_path
                    /\ entry.language = CurEntry.language
             /\ (CurEntry.state # "Text" /\ StartsWith(CurTrimmed, DiffMarker)) =>
                    new.variant \in {"DiffMetadata", "Code"}]_vars

\* a second 'diff --git' line of the same depth, naming another path, was
\* pushed as DiffMetadata or Code and the layer kept the first path
C25_Witness ==
    \E i, j \in 1..Len(lines) :
        /\ i < j
        /\ lines[i].variant = "DiffHeader"
        /\ lines[j].variant \in {"DiffMetadata", "Code"}
        /\ lines[j].quoting_layer = lines[i].quoting_layer
        /\ StartsWith(Trimmed(lines[j].raw), DiffMarker)
        /\ extract_file_path(Trimmed(lines[j].raw)) # lines[i].file_path
        /\ layers[LayerIndex(lines[i].quoting_layer)].file_path = lines[i].file_path

----------------------------------------------------------------------------
(* Further claims about ChunkCollector::collect, checked under SpecCollect. *)

\* C26: every node filter_children returns is a leaf and the nodes come in
\* strictly increasing document order, so the chunks collected before the
\* merge do not overlap one another and are sorted by start.
C26_LeavesInOrder ==
    pc = "collected" =>
        /\ \A k \in 1..Len(flat) : child_count(tree, flat[k]) = 0
        /\ \A j, k \in 1..Len(flat) : j < k => flat[j] < flat[k]
        /\ \A j, k \in 1..Len(chunksIn) :
               j < k => /\ chunksIn[j][1] <= chunksIn[k][1]
                        /\ chunksIn[j][2] <= chunksIn[k][1]

\* the walk returned a child of the root and, after it, a leaf from below a
\* sibling with children
C26_Witness ==
    /\ pc = "collected" /\ Len(flat) >= 2
    /\ tree[flat[1]].parent = 1
    /\ tree[flat[Len(flat)]].parent # 1

----------------------------------------------------------------------------
(* Further claims about merge_adjacent, checked under SpecMerge.           *)

\* the bytes of the half-open range r
BytesOf(r) == r[1]..(r[2] - 1)

\* the byte b lies in none of the ranges of sp
Uncovered(sp, b) == \A i \in 1..Len(sp) : b \notin BytesOf(sp[i])

\* C27: merge_adjacent loses no coverage and adds none but one-byte gaps:
\* every range given lies in exactly one chunk returned, a chunk starts
\* where some range given starts and ends where some range given ends, and
\* a byte of a chunk that lies in no range given is the one byte between
\* the end of a range given and the start of another.
C27_Coverage ==
    merges >= 1 =>
        /\ \A i \in 1..Len(chunksPrev) :
               Cardinality({k \in 1..Len(chunks) :
                               /\ chunks[k][1] <= chunksPrev[i][1]
                               /\ chunksPrev[i][2] <= chunks[k][2]}) = 1
        /\ \A k \in 1..Len(chunks) :
               /\ \E i \in 1..Len(chunksPrev) : chunksPrev[i][1] = chunks[k][1]
               /\ \E i \in 1..Len(chunksPrev) : chunksPrev[i][2] = chunks[k][2]
               /\ \A b \in BytesOf(chunks[k]) :
                      Uncovered(chunksPrev, b) =>
                          \E i, j \in 1..Len(chunksPrev) :
                              chunksPrev[i][2] = b /\ chunksPrev[j][1] = b + 1

\* two ranges one byte apart were merged into a chunk that holds that byte
C27_Witness ==
    /\ merges >= 1 /\ Len(chunks) < Len(chunksPrev)
    /\ \E k \in 1..Len(chunks) :
           \E b \in BytesOf(chunks[k]) : Uncovered(chunksPrev, b)

----------------------------------------------------------------------------
(* Further claims about build_spans, checked under Spec.                   *)

\* C28: two Code records that follow each other at the same quoting depth
\* lie in the same span whatever their signs are, and the kind of a Code
\* span is the sign of its first record.
C28_CodeSpansKeepSigns ==
    pc = "spans" =>
        /\ \A i \in 1..(Len(lines) - 1) :
               (/\ lines[i].variant = "Code" /\ lines[i + 1].variant = "Code"
                /\ lines[i].quoting_layer = lines[i + 1].quoting_layer) =>
                   \E k \in 1..Len(spans) : spans[k].lo < i /\ i + 1 <= spans[k].hi
        /\ \A k \in 1..Len(spans) :
               spans[k].variant = "Code" => spans[k].kind = lines[spans[k].lo + 1].kind

\* a Code span whose second record has another sign than its first
C28_Witness ==
    /\ pc = "spans"
    /\ \E k \in 1..Len(spans) :
           /\ spans[k].variant = "Code"
           /\ spans[k].hi - spans[k].lo >= 2
           /\ lines[spans[k].lo + 2].kind # spans[k].kind

----------------------------------------------------------------------------
(* Further claims about parse_lines, checked under Spec.                   *)

\* the i-th line of s without its terminator ("\n" or "\r\n")
LineText(s, i) ==
    LET ends == LineEnds(s, 1)
        from == IF i = 1 THEN 1 ELSE ends[i - 1] + 1
        piece == SubSeq(s, from, ends[i])
        noLF == IF piece # <<>> /\ piece[Len(piece)] = LF
                THEN SubSeq(piece, 1, Len(piece) - 1) ELSE piece
    IN IF noLF # piece /\ noLF # <<>> /\ noLF[Len(noLF)] = CR
       THEN SubSeq(noLF, 1, Len(noLF) - 1) ELSE noLF

\* C29: parse_lines returns one record per line of the input, in order,
\* with the line without its terminator as raw; the first offset is 0,
\* every length is the byte length of raw plus 1, and every later offset is
\* the offset before it plus the length before it.
C29_OneRecordPerLine ==
    pc = "parsed" =>
        /\ Len(lines) = Len(LineEnds(source, 1))
        /\ \A i \in 1..Len(lines) :
               /\ lines[i].raw = LineText(source, i)
               /\ lines[i].length = Len(lines[i].raw) + 1
               /\ lines[i].offset =
                      (IF i = 1 THEN 0 ELSE lines[i - 1].offset + lines[i - 1].length)

\* an input with a CR LF line whose last line has no terminator
C29_Witness ==
    /\ pc = "parsed" /\ Len(lines) >= 2
    /\ source[Len(source)] # LF
    /\ \E i \in 1..Len(source) : source[i] = CR

----------------------------------------------------------------------------
(* The two classifiers compared, checked under SpecBoth.                   *)

\* every line of the input has the same quoting depth
OneDepth == \A i, j \in 1..Len(lines) : lines[i].quoting_layer = lines[j].quoting_layer

\* C30: on an input all of whose lines have the same quoting depth the
\* classifier of line.rs and the classifier of parser/line.rs return the
\* same records: variant, offset, length, quoting_layer, raw, file path,
\* language and sign agree at every position.
C30_SameRecords ==
    (pc = "both" /\ OneDepth) => linesSingle = lines

\* a quoted diff with its hunk and a removed line, all at depth 1
C30_Witness ==
    /\ pc = "both" /\ OneDepth
    /\ Len(lines) >= 3 /\ lines[1].quoting_layer = 1
    /\ \E i \in 1..Len(lines) : lines[i].variant = "Code" /\ lines[i].kind = "Remove"
    /\ linesSingle = lines

====
